---- MODULE Spec2Model ----
(***************************************************************************)
(* A model of pkg/generator.go of helm-values-schema-json: the entry point *)
(* GenerateJsonSchema (configuration checks, the loop over the input       *)
(* files, the additionalProperties policies, serialization and the write   *)
(* of the output file) and the tree walk setAdditionalProperties.          *)
(*                                                                         *)
(* parseNode, mergeSchemas, uniqueStringAppend, convertSchemaToMap and     *)
(* getSchemaURL are called by generator.go but live in other files of the  *)
(* package; they are modelled from the specification's description.        *)
(***************************************************************************)
EXTENDS Integers, Sequences, FiniteSets, TLC

VARIABLES
    config,        \* the *Config argument of GenerateJsonSchema
    pc,            \* position inside GenerateJsonSchema
    idx,           \* 1-based position of the range loop over config.Input
    content,       \* what getFileContent returned for the current file
    node,          \* the yaml.Node the current file was unmarshaled into
    properties,    \* the local map[string]*Schema of the current file
    required,      \* the local []string of the current file
    mergedSchema,  \* the running aggregate
    output,        \* jsonBytes, as the structure that gets printed
    written,       \* whether os.WriteFile has stored the output file
    err,           \* the error GenerateJsonSchema returned
    hist           \* history of the run (not program state)

vars == <<config, pc, idx, content, node, properties, required,
          mergedSchema, output, written, err, hist>>

----------------------------------------------------------------------------
(* Bounds of the model. *)

MaxFiles == 2

MaxSeqLen == 4

MaxDepth == 3

----------------------------------------------------------------------------
(* Sequences helpers. *)

Range(s) == {s[i] : i \in 1..Len(s)}

NoDuplicates(s) == \A i, j \in 1..Len(s) : i # j => s[i] # s[j]

----------------------------------------------------------------------------
(* yaml.Node values: Kind, Tag, Value and Content, as generator.go reads   *)
(* them.                                                                   *)

YNode(kind, tag, value, children) ==
    [Kind |-> kind, Tag |-> tag, Value |-> value, Content |-> children]

Scalar(tag, value) == YNode("scalar", tag, value, <<>>)

Key(k) == Scalar("!!str", k)

NullV == Scalar("!!null", "null")

IntV == Scalar("!!int", "1")

\* [ {c: 1} ] : a sequence whose first element is a mapping
SeqObjV == YNode("sequence", "!!seq", "",
                 <<YNode("mapping", "!!map", "", <<Key("c"), IntV>>)>>)

\* {c: null} : a mapping, itself not null, whose only child is null
MapV == YNode("mapping", "!!map", "", <<Key("c"), NullV>>)

Values == {NullV, IntV, MapV, SeqObjV}

Keys == {"a", "b"}

\* Orders of distinct keys a mapping of at most two keys can be written in.
KeyOrders == ({<<>>} \cup {<<k>> : k \in Keys})
                 \cup {kl \in Keys \X Keys : kl[1] # kl[2]}

RECURSIVE Pairs(_, _, _)
Pairs(ks, vs, i) ==
    IF i > Len(ks) THEN <<>>
    ELSE <<Key(ks[i]), vs[i]>> \o Pairs(ks, vs, i + 1)

RootMappings ==
    {YNode("mapping", "!!map", "", Pairs(kv[1], kv[2], 1)) :
        kv \in {p \in KeyOrders \X
                        (({<<>>} \cup {<<x>> : x \in Values})
                                \cup (Values \X Values)) :
                  Len(p[1]) = Len(p[2])}}

\* Root sequences of 1..MaxSeqLen scalars: - a / - a - a / ...
RootSequences ==
    {YNode("sequence", "!!seq", "", [i \in 1..n |-> Key("a")]) : n \in 1..MaxSeqLen}

RootScalars == {Scalar("!!str", "a")}

Roots == RootMappings \cup RootSequences \cup RootScalars

\* The document node yaml.Unmarshal fills in: no content for an empty
\* document, else the root node.
EmptyDocument == YNode("", "", "", <<>>)

Document(root) == YNode("document", "", "", <<root>>)

Documents == {EmptyDocument} \cup {Document(r) : r \in Roots}

----------------------------------------------------------------------------
(* Schema: the fields generator.go reads and writes.  Items is a sequence  *)
(* of length 0 (nil) or 1; AdditionalProperties is "unset" (nil), "true"   *)
(* or "false".                                                             *)

Unset == "unset"

BoolFlags == {Unset, "true", "false"}

Schema(type, props, items, req, ap, title, desc, id) ==
    [Type |-> type, Properties |-> props, Items |-> items, Required |-> req,
     AdditionalProperties |-> ap, Title |-> title, Description |-> desc,
     ID |-> id]

\* &Schema{}
EmptySchema == Schema("", <<>>, <<>>, <<>>, Unset, "", "", "")

Leaf(type) == Schema(type, <<>>, <<>>, <<>>, Unset, "", "", "")

\* properties[key] = schema on a Go map: insert or overwrite.
MapPut(m, key, schema) ==
    [k \in DOMAIN m \cup {key} |-> IF k = key THEN schema ELSE m[k]]

----------------------------------------------------------------------------
(* Functions of the package that generator.go calls and that live outside  *)
(* generator.go, after the specification's sections 4.1, 4.2 and 4.4.      *)

\* uniqueStringAppend(dest, src...): a deduplicated union that keeps the
\* order in which each string was first seen.
RECURSIVE uniqueStringAppend(_, _)
uniqueStringAppend(dest, src) ==
    IF src = <<>> THEN dest
    ELSE uniqueStringAppend(
             IF Head(src) \in Range(dest) THEN dest ELSE Append(dest, Head(src)),
             Tail(src))

\* The JSON Schema type of a YAML scalar tag.
TypeOfTag(tag) ==
    CASE tag = "!!null" -> "null"
      [] tag = "!!int" -> "integer"
      [] tag = "!!float" -> "number"
      [] tag = "!!bool" -> "boolean"
      [] OTHER -> "string"

\* parseNode(keyNode, valNode) -> (schema, isRequired).
RECURSIVE parseNode(_, _)
RECURSIVE parseMapping(_, _, _, _)
parseMapping(c, i, props, req) ==
    IF i > Len(c) THEN [properties |-> props, required |-> req]
    ELSE LET r == parseNode(c[i], c[i + 1])
         IN parseMapping(c, i + 2, MapPut(props, c[i].Value, r.schema),
                         IF r.isRequired THEN Append(req, c[i].Value) ELSE req)

parseNode(keyNode, valNode) ==
    CASE valNode.Kind = "mapping" ->
            LET m == parseMapping(valNode.Content, 1, <<>>, <<>>)
            IN [schema |-> Schema("object", m.properties, <<>>, m.required,
                                  Unset, "", "", ""),
                isRequired |-> TRUE]
      [] valNode.Kind = "sequence" ->
            [schema |-> Schema("array", <<>>,
                               IF Len(valNode.Content) = 0 THEN <<>>
                               ELSE <<parseNode(keyNode, valNode.Content[1]).schema>>,
                               <<>>, Unset, "", "", ""),
             isRequired |-> TRUE]
      [] OTHER ->
            [schema |-> Leaf(TypeOfTag(valNode.Tag)),
             isRequired |-> valNode.Tag # "!!null"]

\* mergeSchemas(base, incoming): an empty base yields the incoming fragment;
\* two objects are merged by the union of their properties (a collision is
\* merged recursively) and the deduplicated union of their required lists;
\* otherwise the incoming fragment overwrites the prior one.  The required
\* list of the result is a deduplicated union in either case.
RECURSIVE mergeSchemas(_, _)
mergeSchemas(dest, src) ==
    IF dest.Type = "object" /\ src.Type = "object"
    THEN [dest EXCEPT
            !.Properties =
                [k \in DOMAIN dest.Properties \cup DOMAIN src.Properties |->
                    IF k \notin DOMAIN src.Properties THEN dest.Properties[k]
                    ELSE IF k \notin DOMAIN dest.Properties THEN src.Properties[k]
                    ELSE mergeSchemas(dest.Properties[k], src.Properties[k])],
            !.Required = uniqueStringAppend(dest.Required, src.Required),
            !.Title = IF src.Title # "" THEN src.Title ELSE @,
            !.Description = IF src.Description # "" THEN src.Description ELSE @,
            !.ID = IF src.ID # "" THEN src.ID ELSE @,
            !.AdditionalProperties =
                IF src.AdditionalProperties # Unset
                THEN src.AdditionalProperties ELSE @]
    ELSE [src EXCEPT !.Required = uniqueStringAppend(<<>>, src.Required)]

\* getSchemaURL(draft): a fixed table of the known drafts; any other draft
\* is an error.
KnownDrafts == {4, 6, 7, 2019, 2020}

NoErr == "nil"

getSchemaURL(draft) ==
    IF draft \in KnownDrafts
    THEN [url |-> <<"json-schema.org", draft>>, err |-> NoErr]
    ELSE [url |-> <<>>, err |-> "invalid draft version"]

\* convertSchemaToMap(schema): the map that holds only the keys the fragment
\* carries; title, description and $id are set on the root only.
RECURSIVE convertSchemaToMap(_)
convertSchemaToMap(s) ==
    LET present ==
            {k \in {"type", "properties", "items", "required",
                    "additionalProperties", "title", "description", "$id"} :
                CASE k = "type" -> s.Type # ""
                  [] k = "properties" -> DOMAIN s.Properties # {}
                  [] k = "items" -> s.Items # <<>>
                  [] k = "required" -> s.Required # <<>>
                  [] k = "additionalProperties" -> s.AdditionalProperties # Unset
                  [] k = "title" -> s.Title # ""
                  [] k = "description" -> s.Description # ""
                  [] OTHER -> s.ID # ""}
    IN [k \in present |->
           CASE k = "type" -> s.Type
             [] k = "properties" ->
                    [n \in DOMAIN s.Properties |-> convertSchemaToMap(s.Properties[n])]
             [] k = "items" -> convertSchemaToMap(s.Items[1])
             [] k = "required" -> s.Required
             [] k = "additionalProperties" -> s.AdditionalProperties
             [] k = "title" -> s.Title
             [] k = "description" -> s.Description
             [] OTHER -> s.ID]

----------------------------------------------------------------------------
(* generator.go *)

\* An error value: its text, and the input paths the text mentions.
Err(msg) == [msg |-> msg, names |-> <<>>]

Nil == Err(NoErr)

Path(i) == <<"values", i>>

Config(n, draft, indent, rootAP, allAP) ==
    [Input |-> [i \in 1..n |-> Path(i)],
     Draft |-> draft,
     Indent |-> indent,
     OutputPath |-> "values.schema.json",
     SchemaRoot |-> [Title |-> "T", Description |-> "", ID |-> "",
                     AdditionalProperties |-> rootAP],
     SchemaAll |-> [AdditionalProperties |-> allAP]]

\* BoolFlag.IsSet()
IsSet(flag) == flag # Unset

\* The checks with the test for an odd indentation left out.
ConfigErrorNoParity(cfg) ==
    IF Len(cfg.Input) = 0 THEN Err("input flag is required")
    ELSE IF getSchemaURL(cfg.Draft).err # NoErr THEN Err(getSchemaURL(cfg.Draft).err)
    ELSE IF cfg.Indent <= 0 THEN Err("indentation must be a positive number")
    ELSE Nil

\* The checks at the head of GenerateJsonSchema, in the order they are made.
ConfigError(cfg) ==
    IF Len(cfg.Input) = 0 THEN Err("input flag is required")
    ELSE IF getSchemaURL(cfg.Draft).err # NoErr THEN Err(getSchemaURL(cfg.Draft).err)
    ELSE IF cfg.Indent <= 0 THEN Err("indentation must be a positive number")
    ELSE IF cfg.Indent % 2 # 0 THEN Err("indentation must be an even number")
    ELSE Nil

\* A loop that stops one element early.
RangeDoneEarly(i, input) == i >= Len(input)

\* for _, filePath := range config.Input: the loop is over once every
\* element was visited.
RangeDone(i, input) == i > Len(input)

\* What getFileContent can return: an error, or the bytes of the file, which
\* are either not YAML or the text of one document.
FileResult(failed, malformed, doc) ==
    [failed |-> failed, malformed |-> malformed, doc |-> doc]

NoContent == FileResult(FALSE, FALSE, EmptyDocument)

FileResults ==
    {FileResult(TRUE, FALSE, EmptyDocument), FileResult(FALSE, TRUE, EmptyDocument)}
        \cup {FileResult(FALSE, FALSE, d) : d \in Documents}

\* The read failure reported with the text of the parse failure.
ReadErrorAsUnmarshal == Err("error unmarshaling YAML")

ReadError == Err("error reading YAML file(s)")

UnmarshalError == Err("error unmarshaling YAML")

\* A read failure that skips the file (continue) instead of returning.
AfterReadErrorContinue(i) == [pc |-> "range", idx |-> i + 1, err |-> Nil]

\* if err != nil { return errors.New(...) } after getFileContent: where
\* the run goes on, and with which error.
AfterReadError(i) == [pc |-> "done", idx |-> i, err |-> ReadError]

\* yaml.Unmarshal(content, &node)
Unmarshal(c) ==
    IF c.malformed THEN [node |-> EmptyDocument, err |-> "yaml: malformed"]
    ELSE [node |-> c.doc, err |-> NoErr]

\* The empty-document test left out.
SkipEmptyNever(n) == FALSE

\* if len(node.Content) == 0 { continue }
SkipEmpty(n) == Len(n.Content) = 0

\* Every key appended, required or not.
AppendAlways(req, key, isRequired) == Append(req, key)

\* if isRequired { required = append(required, keyNode.Value) }
AppendIfRequired(req, key, isRequired) ==
    IF isRequired THEN Append(req, key) ELSE req

\* for i := 0; i < len(rootNode.Content); i += 2 { ... }: the children i and
\* i+1 are read without a look at the kind of rootNode; an index past the
\* end is a run-time panic.
RECURSIVE RootLoop(_, _, _, _)
RootLoop(c, i, props, req) ==
    IF ~(i <= Len(c)) THEN [properties |-> props, required |-> req, panic |-> FALSE]
    ELSE IF i + 1 > Len(c) THEN [properties |-> props, required |-> req, panic |-> TRUE]
    ELSE LET r == parseNode(c[i], c[i + 1])
         IN RootLoop(c, i + 2, MapPut(props, c[i].Value, r.schema),
                     AppendIfRequired(req, c[i].Value, r.isRequired))

\* func setAdditionalProperties(s *Schema, value bool)
RECURSIVE setAdditionalProperties(_, _)
setAdditionalProperties(s, value) ==
    LET s1 == IF s.Type = "object"
              THEN [s EXCEPT !.AdditionalProperties = value] ELSE s
        s2 == [s1 EXCEPT !.Properties =
                  [k \in DOMAIN s1.Properties |->
                      setAdditionalProperties(s1.Properties[k], value)]]
    IN IF s2.Items # <<>>
       THEN [s2 EXCEPT !.Items[1].Properties =
                [k \in DOMAIN s2.Items[1].Properties |->
                    setAdditionalProperties(s2.Items[1].Properties[k], value)]]
       ELSE s2

\* encoding/json writes the keys of a map in sorted (byte-wise) order.
\* KeyUniverse lists every key the model can emit in that order.
KeyUniverse ==
    <<"$id", "$schema", "a", "additionalProperties", "b", "c", "description",
      "items", "p", "properties", "required", "title", "type">>

\* The keys in descending order.
MarshalKeysDescending(keys) ==
    LET asc == SelectSeq(KeyUniverse, LAMBDA k : k \in keys)
    IN [i \in 1..Len(asc) |-> asc[Len(asc) + 1 - i]]

MarshalKeys(keys) == SelectSeq(KeyUniverse, LAMBDA k : k \in keys)

\* json.MarshalIndent of the schema map: an object is the sequence of its
\* <<key, value>> members in the order they are printed.
RECURSIVE MarshalObject(_)
MarshalObject(m) ==
    LET order == MarshalKeys(DOMAIN m)
    IN [i \in 1..Len(order) |->
           LET k == order[i]
           IN <<k, CASE k = "properties" ->
                          LET po == MarshalKeys(DOMAIN m[k])
                          IN [j \in 1..Len(po) |-> <<po[j], MarshalObject(m[k][po[j]])>>]
                     [] k = "items" -> MarshalObject(m[k])
                     [] OTHER -> m[k]>>]

NoOutput == [indent |-> 0, value |-> <<>>]

----------------------------------------------------------------------------
(* The history of a run: how many files were read and how many were folded *)
(* in or skipped, the keys and the non-null keys of the folded documents   *)
(* in the order first seen, the file that failed (0: none) and how, the    *)
(* last step taken, and the aggregate before that step.                    *)

NoHist ==
    [nRead |-> 0, nDone |-> 0, seenKeys |-> <<>>, seenReq |-> <<>>,
     failedAt |-> 0, failKind |-> "", last |-> "", before |-> EmptySchema]

\* The keys of a root node, read off the document: the children at the even
\* offsets 0, 2, ... that have a value after them.
DocKeys(root) ==
    [j \in 1..(Len(root.Content) \div 2) |-> root.Content[2 * j - 1].Value]

\* Those of them whose value is not null.
DocNonNullKeys(root) ==
    LET nonNull == {j \in 1..(Len(root.Content) \div 2) :
                       root.Content[2 * j].Tag # "!!null"}
        ks == DocKeys(root)
        RECURSIVE pick(_)
        pick(j) == IF j > Len(ks) THEN <<>>
                   ELSE (IF j \in nonNull THEN <<ks[j]>> ELSE <<>>) \o pick(j + 1)
    IN pick(1)

\* s followed by the elements of t not seen before.
RECURSIVE FirstSeen(_, _)
FirstSeen(s, t) ==
    IF t = <<>> THEN s
    ELSE FirstSeen(IF \E i \in 1..Len(s) : s[i] = t[1] THEN s ELSE s \o <<t[1]>>,
                   SubSeq(t, 2, Len(t)))

----------------------------------------------------------------------------
(* GenerateJsonSchema, step by step. *)

Drafts == {5, 2020}

Indents == {-1, 0, 2, 3}

Init ==
    /\ config \in {Config(n, d, i, r, a) :
                      n \in 0..MaxFiles, d \in Drafts, i \in Indents,
                      r \in BoolFlags, a \in BoolFlags}
    /\ pc = "start"
    /\ idx = 1
    /\ content = NoContent
    /\ node = EmptyDocument
    /\ properties = <<>>
    /\ required = <<>>
    /\ mergedSchema = EmptySchema
    /\ output = NoOutput
    /\ written = FALSE
    /\ err = Nil
    /\ hist = NoHist

\* Lines 17-38: the configuration checks, then mergedSchema := &Schema{}.
CheckConfig ==
    /\ pc = "start"
    /\ IF ConfigError(config) # Nil
       THEN /\ pc' = "done"
            /\ err' = ConfigError(config)
       ELSE /\ pc' = "range"
            /\ err' = err
    /\ mergedSchema' = EmptySchema
    /\ hist' = [hist EXCEPT !.last = "check", !.before = mergedSchema]
    /\ UNCHANGED <<config, idx, content, node, properties, required, output, written>>

\* Line 41, the range is exhausted: on to the policies.
RangeExit ==
    /\ pc = "range"
    /\ RangeDone(idx, config.Input)
    /\ pc' = "rootAP"
    /\ hist' = [hist EXCEPT !.last = "exit", !.before = mergedSchema]
    /\ UNCHANGED <<config, idx, content, node, properties, required,
                   mergedSchema, output, written, err>>

\* Lines 41-45: the next path is taken and getFileContent is called on it.
GetFileContent ==
    /\ pc = "range"
    /\ ~RangeDone(idx, config.Input)
    /\ \E c \in FileResults :
          IF c.failed
          THEN /\ pc' = AfterReadError(idx).pc
               /\ idx' = AfterReadError(idx).idx
               /\ err' = AfterReadError(idx).err
               /\ content' = NoContent
               /\ hist' = [hist EXCEPT !.nRead = @ + 1, !.failedAt = idx,
                                       !.failKind = "read", !.last = "read",
                                       !.before = mergedSchema]
          ELSE /\ pc' = "unmarshal"
               /\ content' = c
               /\ hist' = [hist EXCEPT !.nRead = @ + 1, !.last = "read",
                                       !.before = mergedSchema]
               /\ UNCHANGED <<idx, err>>
    /\ UNCHANGED <<config, node, properties, required, mergedSchema, output, written>>

\* Lines 47-54: yaml.Unmarshal; an error ends the run, an empty document is
\* skipped with continue.
UnmarshalFile ==
    /\ pc = "unmarshal"
    /\ LET u == Unmarshal(content)
       IN IF u.err # NoErr
          THEN /\ pc' = "done"
               /\ err' = UnmarshalError
               /\ hist' = [hist EXCEPT !.failedAt = idx, !.failKind = "unmarshal",
                                       !.last = "unmarshal", !.before = mergedSchema]
               /\ UNCHANGED <<idx, node>>
          ELSE IF SkipEmpty(u.node)
          THEN /\ pc' = "range"
               /\ idx' = idx + 1
               /\ hist' = [hist EXCEPT !.nDone = @ + 1, !.last = "skip",
                                       !.before = mergedSchema]
               /\ UNCHANGED <<err, node>>
          ELSE /\ pc' = "build"
               /\ node' = u.node
               /\ hist' = [hist EXCEPT !.last = "unmarshal", !.before = mergedSchema]
               /\ UNCHANGED <<idx, err>>
    /\ content' = NoContent
    /\ UNCHANGED <<config, properties, required, mergedSchema, output, written>>

\* Lines 56-68: rootNode := node.Content[0] and the loop over its children.
BuildProperties ==
    /\ pc = "build"
    /\ IF Len(node.Content) = 0
       THEN /\ pc' = "panic"
            /\ UNCHANGED <<properties, required>>
       ELSE LET r == RootLoop(node.Content[1].Content, 1, <<>>, <<>>)
            IN IF r.panic
               THEN /\ pc' = "panic"
                    /\ UNCHANGED <<properties, required>>
               ELSE /\ pc' = "merge"
                    /\ properties' = r.properties
                    /\ required' = r.required
    /\ hist' = [hist EXCEPT !.last = "build", !.before = mergedSchema]
    /\ UNCHANGED <<config, idx, content, node, mergedSchema, output, written, err>>

\* Lines 70-83: tempSchema, mergeSchemas, uniqueStringAppend; the iteration
\* ends and its locals go out of scope.
MergeFile ==
    /\ pc = "merge"
    /\ LET tempSchema == Schema("object", properties, <<>>, required, Unset,
                                config.SchemaRoot.Title,
                                config.SchemaRoot.Description,
                                config.SchemaRoot.ID)
           merged == mergeSchemas(mergedSchema, tempSchema)
       IN mergedSchema' =
              [merged EXCEPT !.Required = uniqueStringAppend(@, required)]
    /\ idx' = idx + 1
    /\ pc' = "range"
    /\ node' = EmptyDocument
    /\ properties' = <<>>
    /\ required' = <<>>
    /\ hist' = [hist EXCEPT
                   !.nDone = @ + 1,
                   !.seenKeys = FirstSeen(@, DocKeys(node.Content[1])),
                   !.seenReq = FirstSeen(@, DocNonNullKeys(node.Content[1])),
                   !.last = "merge",
                   !.before = mergedSchema]
    /\ UNCHANGED <<config, content, output, written, err>>

\* Lines 85-88: the root-only policy.
ApplyRootPolicy ==
    /\ pc = "rootAP"
    /\ mergedSchema' =
          IF IsSet(config.SchemaRoot.AdditionalProperties)
          THEN [mergedSchema EXCEPT
                   !.AdditionalProperties = config.SchemaRoot.AdditionalProperties]
          ELSE mergedSchema
    /\ pc' = "allAP"
    /\ hist' = [hist EXCEPT !.last = "rootAP", !.before = mergedSchema]
    /\ UNCHANGED <<config, idx, content, node, properties, required, output,
                   written, err>>

\* Lines 89-91: the all-levels policy.
ApplyAllPolicy ==
    /\ pc = "allAP"
    /\ mergedSchema' =
          IF IsSet(config.SchemaAll.AdditionalProperties)
          THEN setAdditionalProperties(mergedSchema,
                                       config.SchemaAll.AdditionalProperties)
          ELSE mergedSchema
    /\ pc' = "marshal"
    /\ hist' = [hist EXCEPT !.last = "allAP", !.before = mergedSchema]
    /\ UNCHANGED <<config, idx, content, node, properties, required, output,
                   written, err>>

\* Lines 93-105: convertSchemaToMap, the $schema key, json.MarshalIndent.
\* No fragment of the model is inconsistent, so neither call fails.
MarshalSchema ==
    /\ pc = "marshal"
    /\ LET jsonSchemaMap ==
              MapPut(convertSchemaToMap(mergedSchema), "$schema",
                     getSchemaURL(config.Draft).url)
       IN output' = [indent |-> config.Indent, value |-> MarshalObject(jsonSchemaMap)]
    /\ pc' = "write"
    /\ hist' = [hist EXCEPT !.last = "marshal", !.before = mergedSchema]
    /\ UNCHANGED <<config, idx, content, node, properties, required,
                   mergedSchema, written, err>>

\* Lines 107-115: os.WriteFile stores the file, or fails.
WriteFile ==
    /\ pc = "write"
    /\ \E ok \in BOOLEAN :
          /\ written' = ok
          /\ err' = IF ok THEN Nil ELSE Err("error writing schema to file")
    /\ pc' = "done"
    /\ hist' = [hist EXCEPT !.last = "write", !.before = mergedSchema]
    /\ UNCHANGED <<config, idx, content, node, properties, required,
                   mergedSchema, output>>

Next ==
    \/ CheckConfig
    \/ RangeExit
    \/ GetFileContent
    \/ UnmarshalFile
    \/ BuildProperties
    \/ MergeFile
    \/ ApplyRootPolicy
    \/ ApplyAllPolicy
    \/ MarshalSchema
    \/ WriteFile

Spec == Init /\ [][Next]_vars

----------------------------------------------------------------------------
(* setAdditionalProperties on its own: any fragment tree of bounded depth, *)
(* one call, the tree afterwards.                                          *)

ObjectOf(t) == Schema("object", [k \in {"p"} |-> t], <<>>, <<>>, Unset, "", "", "")

ArrayOf(t) == Schema("array", <<>>, <<t>>, <<>>, Unset, "", "", "")

RECURSIVE Trees(_)
Trees(d) ==
    IF d = 0 THEN {Leaf("string"), Leaf("object"), Leaf("array")}
    ELSE LET sub == Trees(d - 1)
         IN {Leaf("string"), Leaf("object"), Leaf("array")}
                \cup {ObjectOf(t) : t \in sub} \cup {ArrayOf(t) : t \in sub}

InitAP ==
    /\ config \in {Config(1, 2020, 2, Unset, v) : v \in {"true", "false"}}
    /\ pc = "call"
    /\ idx = 1
    /\ content = NoContent
    /\ node = EmptyDocument
    /\ properties = <<>>
    /\ required = <<>>
    /\ mergedSchema \in Trees(MaxDepth)
    /\ output = NoOutput
    /\ written = FALSE
    /\ err = Nil
    /\ hist = NoHist

CallSetAdditionalProperties ==
    /\ pc = "call"
    /\ mergedSchema' = setAdditionalProperties(mergedSchema,
                                               config.SchemaAll.AdditionalProperties)
    /\ pc' = "return"
    /\ hist' = [hist EXCEPT !.last = "allAP", !.before = mergedSchema]
    /\ UNCHANGED <<config, idx, content, node, properties, required, output,
                   written, err>>

NextAP == CallSetAdditionalProperties

SpecAP == InitAP /\ [][NextAP]_vars

----------------------------------------------------------------------------
(* Notions the properties below are stated with. *)

\* Every fragment of the tree under s, s included.
RECURSIVE Fragments(_)
Fragments(s) ==
    {s} \cup UNION {Fragments(s.Properties[k]) : k \in DOMAIN s.Properties}
        \cup UNION {Fragments(s.Items[i]) : i \in 1..Len(s.Items)}

\* after is before with additionalProperties touched on object fragments only.
RECURSIVE NonObjectsKept(_, _)
NonObjectsKept(before, after) ==
    /\ after.Type = before.Type
    /\ after.Type # "object" =>
          after.AdditionalProperties = before.AdditionalProperties
    /\ DOMAIN after.Properties = DOMAIN before.Properties
    /\ \A k \in DOMAIN before.Properties :
          NonObjectsKept(before.Properties[k], after.Properties[k])
    /\ Len(after.Items) = Len(before.Items)
    /\ \A i \in 1..Len(before.Items) : NonObjectsKept(before.Items[i], after.Items[i])

\* The configuration is one GenerateJsonSchema has to reject.
ConfigInvalid(cfg) ==
    \/ cfg.Input = <<>>
    \/ cfg.Draft \notin KnownDrafts
    \/ cfg.Indent < 1
    \/ cfg.Indent % 2 = 1

\* The policies have been applied.
PoliciesApplied == pc \in {"marshal", "write"} \/ (pc = "done" /\ output # NoOutput)

\* The names under "properties" of the printed schema, in the order printed.
EmittedPropertyOrder(out) ==
    LET at == {i \in 1..Len(out.value) : out.value[i][1] = "properties"}
    IN IF at = {} THEN <<>>
       ELSE LET members == out.value[CHOOSE i \in at : TRUE][2]
            IN [j \in 1..Len(members) |-> members[j][1]]

\* Byte-wise order of the key names of the model.
KeyBefore(x, y) ==
    \E i, j \in 1..Len(KeyUniverse) :
        i < j /\ KeyUniverse[i] = x /\ KeyUniverse[j] = y

----------------------------------------------------------------------------
(* The properties. *)

\* C1: after setAdditionalProperties(root, false) every object fragment of
\* the tree carries additionalProperties = false, the items fragment of an
\* array and what lies below it included, and every fragment that is not an
\* object keeps the additionalProperties it had.
C1_EveryObjectClosed ==
    (pc = "return" /\ config.SchemaAll.AdditionalProperties = "false") =>
        /\ \A f \in Fragments(mergedSchema) :
              f.Type = "object" => f.AdditionalProperties = "false"
        /\ NonObjectsKept(hist.before, mergedSchema)

\* C2: with both policies configured, the top-level fragment ends up with
\* the all-levels value, whatever the input files hold (empty documents
\* included).
C2_AllLevelsOverridesRoot ==
    (/\ PoliciesApplied
     /\ IsSet(config.SchemaRoot.AdditionalProperties)
     /\ IsSet(config.SchemaAll.AdditionalProperties)) =>
        mergedSchema.AdditionalProperties = config.SchemaAll.AdditionalProperties

\* C3: with an invalid configuration (no input, unknown draft, indentation
\* <= 0 or odd) the run ends with an error before any file is read or
\* merged, and nothing is written.
C3_InvalidConfigStopsEarly ==
    ConfigInvalid(config) =>
        /\ pc \in {"start", "done"}
        /\ pc = "done" => err # Nil
        /\ hist.nRead = 0
        /\ mergedSchema = EmptySchema
        /\ output = NoOutput
        /\ ~written

C3_OddIndentRejected ==
    /\ pc = "done"
    /\ config.Indent = 3
    /\ config.Input # <<>>
    /\ config.Draft \in KnownDrafts
    /\ err = Err("indentation must be an even number")

\* C4: a read or parse failure of any input file ends the whole run with an
\* error and without output; the output file is written only when every
\* input file was read and parsed.
C4_NoPartialSchema ==
    /\ hist.failedAt # 0 =>
          pc = "done" /\ err # Nil /\ output = NoOutput /\ ~written
    /\ written =>
          hist.failedAt = 0 /\ hist.nDone = Len(config.Input)

C4_SecondFileFails ==
    /\ hist.failedAt = 2
    /\ mergedSchema.Properties # <<>>
    /\ pc = "done"
    /\ ~written

\* C5, as claimed: the error of a failed input file names that file.
C5_ErrorNamesFile ==
    hist.failedAt # 0 => config.Input[hist.failedAt] \in Range(err.names)

\* C5, amended: the error of a failed input file is a fixed text that tells
\* a read failure from a parse failure and names no file, so it is the same
\* whichever file failed.
C5_ErrorIsFixedText ==
    hist.failedAt # 0 =>
        /\ err.names = <<>>
        /\ hist.failKind = "read" => err.msg = "error reading YAML file(s)"
        /\ hist.failKind = "unmarshal" => err.msg = "error unmarshaling YAML"

C5_ReadOfSecondFileFails ==
    /\ hist.failedAt = 2
    /\ hist.failKind = "read"
    /\ pc = "done"

\* C6: an empty document is skipped: the step that finds it leaves the
\* aggregate as it was, raises no error and goes on to the next file.
C6_EmptyDocumentSkipped ==
    [][(pc = "unmarshal" /\ ~content.failed /\ ~content.malformed
            /\ content.doc.Content = <<>>) =>
          /\ mergedSchema' = mergedSchema
          /\ err' = Nil
          /\ pc' = "range"
          /\ idx' = idx + 1]_vars

C6_SkippedAfterMerge ==
    /\ hist.last = "skip"
    /\ hist.nDone = 2
    /\ mergedSchema.Properties # <<>>
    /\ pc = "range"
    /\ err = Nil

C8_PropertiesInFirstSeenOrder ==
    written => EmittedPropertyOrder(output) = hist.seenKeys

\* C8, amended: the names under properties are printed in ascending
\* byte-wise order, whatever the order in which they were first seen.
C8_PropertiesInSortedOrder ==
    output # NoOutput =>
        LET order == EmittedPropertyOrder(output)
        IN /\ Range(order) = Range(hist.seenKeys)
           /\ \A i, j \in 1..Len(order) : i < j => KeyBefore(order[i], order[j])

C8_SeenInReverse ==
    /\ written
    /\ hist.seenKeys = <<"b", "a">>
    /\ EmittedPropertyOrder(output) = <<"a", "b">>

\* C9: the files are read, parsed and merged one at a time in input order:
\* file i is read only once files 1..i-1 were merged or skipped, inside the
\* loop the aggregate changes only in the merge step of the file being
\* processed, and the policies and the serialization come after the last
\* file.
C9_Order ==
    /\ pc \in {"unmarshal", "build", "merge"} =>
          hist.nRead = idx /\ hist.nDone = idx - 1 /\ idx <= Len(config.Input)
    /\ pc = "range" => hist.nRead = idx - 1 /\ hist.nDone = idx - 1
    /\ (PoliciesApplied \/ pc \in {"rootAP", "allAP"}) =>
          hist.nRead = Len(config.Input) /\ hist.nDone = Len(config.Input)

C9_Step ==
    /\ hist'.nRead # hist.nRead =>
          hist.nDone = hist.nRead /\ hist'.nRead = hist.nRead + 1
    /\ hist'.nDone # hist.nDone =>
          hist.nRead = hist.nDone + 1 /\ hist'.nDone = hist.nRead
    /\ mergedSchema' # mergedSchema =>
          \/ pc = "merge" /\ hist.nRead = idx
          \/ pc \in {"rootAP", "allAP"} /\ hist.nDone = Len(config.Input)

C9_StrictlySequential == [](C9_Order) /\ [][C9_Step]_vars

C9_TwoFilesThenPolicies ==
    /\ pc = "write"
    /\ hist.nRead = 2
    /\ hist.nDone = 2
    /\ mergedSchema.AdditionalProperties # Unset

\* C10: for every parsed, non-empty document, whatever the kind of its root
\* node, the loop over the root's children reads no index past their end,
\* so the run never aborts.
C10_NoOutOfRange == pc # "panic"

====
